---- MODULE Spec2Model ----
(***************************************************************************)
(* The configuration front end of the RTEMS Source Builder, sb/options.py: *)
(* the long-option table and its handlers, command_line.process, the jobs  *)
(* resolution, post_process, load and run.                                 *)
(*                                                                         *)
(* Python strings are sequences of one-character strings, so that the      *)
(* slicing, find, split and the number parsing of the source are computed  *)
(* on characters.  Macro names (the keys of defaults) are only ever        *)
(* compared and concatenated, and are kept as TLA+ strings.                *)
(***************************************************************************)
EXTENDS Integers, Sequences, FiniteSets, TLC

(* The longest argument vector (argv[1:]) the model draws. *)
MaxArgs == 2

VARIABLES
    pc,         \* where run()/load() stand: "run", "overrides", "process",
                \* "post_process", "provenance", "loaded", "raised", "exit"
    args,       \* command_line.args = argv[1:]
    arg,        \* the index of process()'s while loop
    opts,       \* command_line.opts: option name -> value, and 'params'
    defaults,   \* command_line.defaults: macro name -> (kind, attribute, value)
    exc,        \* the exception in flight, and the step of load() that raised it
    stdout,     \* what has been printed
    ncpus,      \* post_process's local: the parallelism jobs() returned
    overrides,  \* load()'s local: the host's overrides, or None
    exit_code   \* the process's exit status, NotExited while it runs

vars == <<pc, args, arg, opts, defaults, exc, stdout, ncpus, overrides, exit_code>>

-----------------------------------------------------------------------------
(* Python values. *)

(* None, a value no character sequence equals. *)
None == <<"<None>">>
(* The macro of the '--help' row, which is None. *)
NoMacro == "<None>"

s_max == <<"m", "a", "x">>
s_none == <<"n", "o", "n", "e">>
s_half == <<"h", "a", "l", "f">>
s_0 == <<"0">>
s_1 == <<"1">>
s_params == <<"p", "a", "r", "a", "m", "s">>
s_help_alias == <<"-", "?">>
s_long_prefix == <<"-", "-">>
s_empty == <<>>

Digits == {"0", "1", "2", "3", "4", "5", "6", "7", "8", "9"}

DigitVal(c) ==
    CASE c = "0" -> 0 [] c = "1" -> 1 [] c = "2" -> 2 [] c = "3" -> 3 [] c = "4" -> 4
      [] c = "5" -> 5 [] c = "6" -> 6 [] c = "7" -> 7 [] c = "8" -> 8 [] c = "9" -> 9

DigitChar(d) ==
    CASE d = 0 -> "0" [] d = 1 -> "1" [] d = 2 -> "2" [] d = 3 -> "3" [] d = 4 -> "4"
      [] d = 5 -> "5" [] d = 6 -> "6" [] d = 7 -> "7" [] d = 8 -> "8" [] d = 9 -> "9"

(* str.find(c): the 0-based index of the first c in s, -1 when there is none. *)
find(s, c) ==
    IF \E i \in 1..Len(s) : s[i] = c
    THEN (CHOOSE i \in 1..Len(s) : s[i] = c /\ \A j \in 1..(i - 1) : s[j] # c) - 1
    ELSE -1

(* s[from:to] and s[from:], 0-based as in Python. *)
slice(s, from, to) == SubSeq(s, from + 1, to)
slice_from(s, from) == SubSeq(s, from + 1, Len(s))

startswith(s, prefix) ==
    Len(s) >= Len(prefix) /\ SubSeq(s, 1, Len(prefix)) = prefix

(* s.split(sep) for a one-character sep: the pieces between every sep. *)
RECURSIVE split(_, _)
split(s, sep) ==
    LET i == find(s, sep)
    IN  IF i < 0 THEN <<s>>
        ELSE <<slice(s, 0, i)>> \o split(slice_from(s, i + 1), sep)

(* sep.join(parts). *)
RECURSIVE join(_, _)
join(sep, parts) ==
    IF Len(parts) = 0 THEN <<>>
    ELSE IF Len(parts) = 1 THEN parts[1]
    ELSE parts[1] \o <<sep>> \o join(sep, Tail(parts))

(* Numbers: an int n is n/1, a float is a decimal fraction num/den. *)
Num(num, den) == [num |-> num, den |-> den]
NumLe(a, b) == a.num * b.den <= b.num * a.den
NumEq(a, b) == a.num * b.den = b.num * a.den
NumMul(a, b) == Num(a.num * b.num, a.den * b.den)
(* No number: the value of a local that was never assigned. *)
NoNum == [num |-> 0, den |-> 0]

RECURSIVE DigitsVal(_)
DigitsVal(s) ==
    IF Len(s) = 0 THEN 0
    ELSE DigitsVal(SubSeq(s, 1, Len(s) - 1)) * 10 + DigitVal(s[Len(s)])

RECURSIVE Pow10(_)
Pow10(n) == IF n = 0 THEN 1 ELSE 10 * Pow10(n - 1)

Unsigned(s) == IF Len(s) > 0 /\ s[1] \in {"+", "-"} THEN Tail(s) ELSE s
Sign(s) == IF Len(s) > 0 /\ s[1] = "-" THEN -1 ELSE 1

(* int(s): an optional sign and one or more decimal digits; anything else *)
(* raises ValueError.                                                      *)
int_ok(s) ==
    LET body == Unsigned(s)
    IN  Len(body) > 0 /\ \A i \in 1..Len(body) : body[i] \in Digits
int_value(s) == Sign(s) * DigitsVal(Unsigned(s))

(* float(s) on decimal notation: an optional sign, digits with at most one *)
(* point and at least one digit.                                           *)
float_ok(s) ==
    LET body == Unsigned(s)
        dots == {i \in 1..Len(body) : body[i] = "."}
    IN  /\ Cardinality(dots) <= 1
        /\ \A i \in 1..Len(body) : body[i] \in Digits \cup {"."}
        /\ \E i \in 1..Len(body) : body[i] \in Digits
float_value(s) ==
    LET body == Unsigned(s)
        dot  == find(body, ".")
        whole == IF dot < 0 THEN body ELSE slice(body, 0, dot)
        frac  == IF dot < 0 THEN <<>> ELSE slice_from(body, dot + 1)
    IN  Num(Sign(s) * DigitsVal(whole \o frac), Pow10(Len(frac)))

(* '%d' % x: x truncated towards zero, in decimal. *)
RECURSIVE decimal(_)
decimal(n) ==
    IF n < 10 THEN <<DigitChar(n)>>
    ELSE decimal(n \div 10) \o <<DigitChar(n % 10)>>
format_d(x) ==
    LET q == IF x.num >= 0 THEN x.num \div x.den ELSE -((-x.num) \div x.den)
    IN  IF q < 0 THEN <<"-">> \o decimal(-q) ELSE decimal(q)

-----------------------------------------------------------------------------
(* The option table. *)

(* The long option names, as the character sequences the parser slices and splits. *)
o_prefix == <<"-", "-", "p", "r", "e", "f", "i", "x">>
o_topdir == <<"-", "-", "t", "o", "p", "d", "i", "r">>
o_configdir == <<"-", "-", "c", "o", "n", "f", "i", "g", "d", "i", "r">>
o_builddir == <<"-", "-", "b", "u", "i", "l", "d", "d", "i", "r">>
o_sourcedir == <<"-", "-", "s", "o", "u", "r", "c", "e", "d", "i", "r">>
o_tmppath == <<"-", "-", "t", "m", "p", "p", "a", "t", "h">>
o_jobs == <<"-", "-", "j", "o", "b", "s">>
o_log == <<"-", "-", "l", "o", "g">>
o_url == <<"-", "-", "u", "r", "l">>
o_targetcflags == <<"-", "-", "t", "a", "r", "g", "e", "t", "c", "f", "l", "a", "g", "s">>
o_targetcxxflags == <<"-", "-", "t", "a", "r", "g", "e", "t", "c", "x", "x", "f", "l", "a", "g", "s">>
o_libstdcxxflags == <<"-", "-", "l", "i", "b", "s", "t", "d", "c", "x", "x", "f", "l", "a", "g", "s">>
o_force == <<"-", "-", "f", "o", "r", "c", "e">>
o_quiet == <<"-", "-", "q", "u", "i", "e", "t">>
o_trace == <<"-", "-", "t", "r", "a", "c", "e">>
o_dry_run == <<"-", "-", "d", "r", "y", "-", "r", "u", "n">>
o_warn_all == <<"-", "-", "w", "a", "r", "n", "-", "a", "l", "l">>
o_no_clean == <<"-", "-", "n", "o", "-", "c", "l", "e", "a", "n">>
o_keep_going == <<"-", "-", "k", "e", "e", "p", "-", "g", "o", "i", "n", "g">>
o_always_clean == <<"-", "-", "a", "l", "w", "a", "y", "s", "-", "c", "l", "e", "a", "n">>
o_host == <<"-", "-", "h", "o", "s", "t">>
o_build == <<"-", "-", "b", "u", "i", "l", "d">>
o_target == <<"-", "-", "t", "a", "r", "g", "e", "t">>
o_help == <<"-", "-", "h", "e", "l", "p">>

(* key |-> (macro, handler, param, defs, init), as the table of command_line.__init__. *)
Row(macro, handler, param, defs, init) ==
    [macro |-> macro, handler |-> handler, param |-> param, defs |-> defs, init |-> init]

_long_opts ==
    (o_prefix         :> Row("_prefix",         "path",     TRUE,  None,   FALSE))
    @@ (o_topdir         :> Row("_topdir",         "path",     TRUE,  None,   FALSE))
    @@ (o_configdir      :> Row("_configdir",      "path",     TRUE,  None,   FALSE))
    @@ (o_builddir       :> Row("_builddir",       "path",     TRUE,  None,   FALSE))
    @@ (o_sourcedir      :> Row("_sourcedir",      "path",     TRUE,  None,   FALSE))
    @@ (o_tmppath        :> Row("_tmppath",        "path",     TRUE,  None,   FALSE))
    @@ (o_jobs           :> Row("_jobs",           "jobs",     TRUE,  s_max,  TRUE))
    @@ (o_log            :> Row("_logfile",        "string",   TRUE,  None,   FALSE))
    @@ (o_url            :> Row("_url_base",       "string",   TRUE,  None,   FALSE))
    @@ (o_targetcflags   :> Row("_targetcflags",   "string",   TRUE,  None,   FALSE))
    @@ (o_targetcxxflags :> Row("_targetcxxflags", "string",   TRUE,  None,   FALSE))
    @@ (o_libstdcxxflags :> Row("_libstdcxxflags", "string",   TRUE,  None,   FALSE))
    @@ (o_force          :> Row("_force",          "bool",     FALSE, s_0,    TRUE))
    @@ (o_quiet          :> Row("_quiet",          "bool",     FALSE, s_0,    TRUE))
    @@ (o_trace          :> Row("_trace",          "bool",     FALSE, s_0,    TRUE))
    @@ (o_dry_run        :> Row("_dry_run",        "bool",     FALSE, s_0,    TRUE))
    @@ (o_warn_all       :> Row("_warn_all",       "bool",     FALSE, s_0,    TRUE))
    @@ (o_no_clean       :> Row("_no_clean",       "bool",     FALSE, s_0,    TRUE))
    @@ (o_keep_going     :> Row("_keep_going",     "bool",     FALSE, s_0,    TRUE))
    @@ (o_always_clean   :> Row("_always_clean",   "bool",     FALSE, s_0,    TRUE))
    @@ (o_host           :> Row("_host",           "triplets", TRUE,  None,   FALSE))
    @@ (o_build          :> Row("_build",          "triplets", TRUE,  None,   FALSE))
    @@ (o_target         :> Row("_target",         "triplets", TRUE,  None,   FALSE))
    @@ (o_help           :> Row(NoMacro,           "help",     FALSE, None,   FALSE))

(* lo[2:], the key of an option in opts. *)
opt_key(lo) == slice_from(lo, 2)

-----------------------------------------------------------------------------
(* The defaults object (macros.macros) and the collaborators of load(). *)

(* A mapping with key k set to v. *)
Put(f, k, v) == [x \in DOMAIN f \cup {k} |-> IF x = k THEN v ELSE f[x]]

(* defaults[key] = value for a string value: stored as ('none', 'none', value). *)
SetStr(d, key, value) == Put(d, key, <<"none", "none", value>>)
(* defaults[key] = (kind, attribute, value). *)
SetTuple(d, key, triple) == Put(d, key, triple)
(* key in defaults. *)
Has(d, key) == key \in DOMAIN d
(* defaults[key]: the value part of the macro; a key that is not set reads *)
(* as the nil value.                                                       *)
Get(d, key) == IF key \in DOMAIN d THEN d[key][3] ELSE s_empty

(* The macros loaded from defaults.mc: 'nil' always, '_host' unset or nil. *)
BaseMacros ==
    { ("nil" :> <<"none", "none", s_empty>>),
      ("nil" :> <<"none", "none", s_empty>>) @@ ("_host" :> <<"triplet", "required", s_empty>>) }

(* path.shell(value): the host-neutral form, every backslash a slash. *)
shell(value) == [i \in 1..Len(value) |-> IF value[i] = "\\" THEN "/" ELSE value[i]]

t_x == <<"x">>
t_a_b == <<"a", "-", "b">>
t_a_b_c == <<"a", "-", "b", "-", "c">>
t_a_b_c_d == <<"a", "-", "b", "-", "c", "-", "d">>
t_arm_none_eabi == <<"a", "r", "m", "-", "n", "o", "n", "e", "-", "e", "a", "b", "i">>
t_i386_pc_linux_gnu ==
    <<"i", "3", "8", "6", "-", "p", "c", "-", "l", "i", "n", "u", "x", "-", "g", "n", "u">>

(* What 'config.sub <value>' can answer: a failure, or a canonical triplet. *)
ConfigSubFailed == [exit_code |-> 1, output |-> s_empty]
ConfigSubResults ==
    {ConfigSubFailed} \cup
    { [exit_code |-> 0, output |-> t] : t \in {t_x, t_a_b, t_arm_none_eabi, t_i386_pc_linux_gnu} }

(* The host: os.name, uname()[0], and the mapping the host module's load() *)
(* answers, or that the import or load() raised (lines 393-407).           *)
HostOverrides ==
    { ("_ncpus" :> <<"none", "none", <<"8">>>>),
      ("_ncpus" :> <<"none", "none", <<"3">>>>)
          @@ ("_host" :> <<"triplet", "required", t_a_b_c>>)
          @@ ("_prefix" :> <<"dir", "optional", <<"/", "o">>>>)
          @@ ("_force" :> <<"none", "none", s_1>>),
      ("_host" :> <<"triplet", "required", t_a_b_c>>) }
Host(os_name, uname, failed, mapping) ==
    [os_name |-> os_name, uname |-> uname, failed |-> failed, mapping |-> mapping]
Hosts ==
    { Host("java", "", FALSE, ov) : ov \in HostOverrides }
    \cup { Host("posix", "SunOS", FALSE, ov) : ov \in HostOverrides }
    \cup { Host("posix", "Linux", failed, ov) : failed \in BOOLEAN, ov \in HostOverrides }

(* git.repo(...): valid(), head() and clean(). *)
Repos ==
    { [valid |-> FALSE, head |-> s_empty, clean |-> FALSE],
      [valid |-> TRUE, head |-> <<"c", "0", "f", "e">>, clean |-> TRUE],
      [valid |-> TRUE, head |-> <<"c", "0", "f", "e">>, clean |-> FALSE] }

-----------------------------------------------------------------------------
(* Exceptions.  self is the command_line object with the exception in      *)
(* flight and the output so far: [opts, defaults, exc, stdout].            *)

(* A printed line: the text, and the string its %s stands for. *)
Line(text, a) == [text |-> text, arg |-> a]

NoExc == [kind |-> "none", msg |-> "", arg |-> s_empty, at |-> ""]
Raise(self, kind, msg, a) ==
    [self EXCEPT !.exc = [kind |-> kind, msg |-> msg, arg |-> a, at |-> ""]]
Raised(self) == self.exc.kind # "none"

(* The names process() can resolve that are not its locals: the module's   *)
(* globals.  'args' is a local of load() and an attribute of self only.    *)
ModuleGlobals ==
    {"glob", "pprint", "re", "os", "string", "error", "execute", "git", "macros",
     "path", "sys", "basepath", "command_line", "load", "run"}

-----------------------------------------------------------------------------
(* The handlers. *)

_lo_string(self, opt, macro, value) ==
    IF value = None
    THEN Raise(self, "general", "option requires a value: %s", opt)
    ELSE [self EXCEPT !.opts = Put(@, opt_key(opt), value),
                      !.defaults = SetStr(@, macro, value)]

_lo_path(self, opt, macro, value) ==
    IF value = None
    THEN Raise(self, "general", "option requires a path: %s", opt)
    ELSE [self EXCEPT !.opts = Put(@, opt_key(opt), shell(value)),
                      !.defaults = SetStr(@, macro, shell(value))]

(* _lo_jobs storing the value before it is validated. *)
_lo_jobs_store_first(self, opt, macro, value) ==
    IF value = None
    THEN Raise(self, "general", "option requires a value: %s", opt)
    ELSE IF ~(value \in {s_max, s_none, s_half} \/ int_ok(value) \/ float_ok(value))
    THEN Raise([self EXCEPT !.defaults = SetStr(@, macro, value)],
               "general", "invalid jobs option: %s", value)
    ELSE [self EXCEPT !.defaults = SetStr(@, macro, value),
                      !.opts = Put(@, opt_key(opt), value)]

_lo_jobs(self, opt, macro, value) ==
    IF value = None
    THEN Raise(self, "general", "option requires a value: %s", opt)
    ELSE IF ~(value \in {s_max, s_none, s_half} \/ int_ok(value) \/ float_ok(value))
    THEN Raise(self, "general", "invalid jobs option: %s", value)
    ELSE [self EXCEPT !.defaults = SetStr(@, macro, value),
                      !.opts = Put(@, opt_key(opt), value)]

_lo_bool(self, opt, macro, value) ==
    IF value # None
    THEN Raise(self, "general", "option does not take a value: %s", opt)
    ELSE [self EXCEPT !.opts = Put(@, opt_key(opt), s_1),
                      !.defaults = SetStr(@, macro, s_1)]

(* One "dash = value.find('-'); if dash >= 0: ..." of _lo_triplets: the   *)
(* segment before the dash and the value left, an empty segment and the    *)
(* value itself when there is no dash.                                     *)
cut_at(value, dash) ==
    IF dash >= 0
    THEN [segment |-> slice(value, 0, dash), value |-> slice_from(value, dash + 1)]
    ELSE [segment |-> s_empty, value |-> value]
cut_dash(value) == cut_at(value, find(value, "-"))

(* Lines 168-169: what is left is the os, when it is not empty. *)
os_value(value) == IF Len(value) # 0 THEN value ELSE s_empty

(* The decomposition of _lo_triplets, lines 157-169: (arch, vendor, os). *)
vendor_os(_arch_value, second) ==
    [arch |-> _arch_value, vendor |-> second.segment, os |-> os_value(second.value)]
arch_rest(first) == vendor_os(first.segment, cut_dash(first.value))
triplet_parts(value) == arch_rest(cut_dash(value))

(* Lines 151-152 and 170-173: the stores of _lo_triplets. *)
store_triplet(self, opt, macro, value, parts) ==
    [self EXCEPT
        !.opts = Put(@, opt_key(opt), value),
        !.defaults =
            SetStr(SetStr(SetStr(SetStr(SetTuple(@, macro, <<"triplet", "none", value>>),
                                        macro \o "_cpu", parts.arch),
                                 macro \o "_arch", parts.arch),
                          macro \o "_vendor", parts.vendor),
                   macro \o "_os", parts.os)]

(* Lines 148-150: config.sub's output replaces the value when it exits 0. *)
canonical(value, config_sub) ==
    IF config_sub.exit_code = 0 THEN config_sub.output ELSE value

decompose(self, opt, macro, value) ==
    store_triplet(self, opt, macro, value, triplet_parts(value))

(* config_sub is what the run of config.sub answered.  Line 148 builds    *)
(* the command with config_sub + ' ' + value, a TypeError on None.         *)
_lo_triplets(self, opt, macro, value, config_sub) ==
    IF value = None
    THEN Raise(self, "TypeError", "cannot concatenate 'str' and 'NoneType' objects", opt)
    ELSE decompose(self, opt, macro, canonical(value, config_sub))

(* help(): the usage text, then error.exit. *)
help(self) ==
    Raise([self EXCEPT !.stdout = Append(@, Line("usage", s_empty))], "exit", "", s_empty)

_lo_help(self, opt, macro, value) == help(self)

(* long_opt[1](lo, long_opt[0], value) *)
handle(self, lo, long_opt, value, config_sub) ==
    CASE long_opt.handler = "string"   -> _lo_string(self, lo, long_opt.macro, value)
      [] long_opt.handler = "path"     -> _lo_path(self, lo, long_opt.macro, value)
      [] long_opt.handler = "jobs"     -> _lo_jobs(self, lo, long_opt.macro, value)
      [] long_opt.handler = "bool"     -> _lo_bool(self, lo, long_opt.macro, value)
      [] long_opt.handler = "triplets" -> _lo_triplets(self, lo, long_opt.macro, value, config_sub)
      [] long_opt.handler = "help"     -> _lo_help(self, lo, long_opt.macro, value)

-----------------------------------------------------------------------------
(* command_line.process *)

(* Lines 222-231: the value of option lo and the index of the last token  *)
(* read, or the exception raised for it.                                   *)
Value(value, i) == [raised |-> FALSE, kind |-> "", msg |-> "", value |-> value, arg |-> i]
NoValue(kind, msg) == [raised |-> TRUE, kind |-> kind, msg |-> msg, value |-> None, arg |-> 0]

option_value(los, long_opt, argv, i) ==
    IF Len(los) = 1
    THEN IF long_opt.param
         THEN (* line 224 reads the name 'args', which process() does not bind *)
              IF "args" \notin ModuleGlobals
              THEN NoValue("NameError", "global name 'args' is not defined")
              ELSE IF i = Len(argv) - 1
              THEN NoValue("general", "option requires a parameter: %s")
              ELSE Value(argv[i + 2], i + 1)
         ELSE Value(None, i)
    ELSE Value(join("=", Tail(los)), i)

(* The object and the loop index after a pass: arg += 1 (line 235) is not  *)
(* reached when the pass raised.                                           *)
Pass(self, i) == [self |-> self, arg |-> IF Raised(self) THEN i ELSE i + 1]

(* Line 232, or the raise of lines 224-225. *)
dispatch(self, lo, long_opt, v, i, config_sub) ==
    IF v.raised
    THEN Pass(Raise(self, v.kind, v.msg, lo), i)
    ELSE Pass(handle(self, lo, long_opt, v.value, config_sub), v.arg)

(* long_option with an unknown option taken as a parameter. *)
long_option_positional(self, los, argv, i, config_sub) ==
    IF los[1] \in DOMAIN _long_opts
    THEN dispatch(self, los[1], _long_opts[los[1]],
                  option_value(los, _long_opts[los[1]], argv, i), i, config_sub)
    ELSE Pass([self EXCEPT !.opts = Put(@, s_params, Append(@[s_params], argv[i + 1]))], i)

(* Lines 218-232: a token that starts with '--'. *)
long_option(self, los, argv, i, config_sub) ==
    IF los[1] \in DOMAIN _long_opts
    THEN dispatch(self, los[1], _long_opts[los[1]],
                  option_value(los, _long_opts[los[1]], argv, i), i, config_sub)
    ELSE Pass(self, i)

(* One pass of the while loop on self.args[i] (i is 0-based): the object   *)
(* after it and the next index.                                            *)
process_arg(self, argv, i, config_sub) ==
    IF argv[i + 1] = s_help_alias
    THEN Pass(help(self), i)
    ELSE IF startswith(argv[i + 1], s_long_prefix)
    THEN long_option(self, split(argv[i + 1], "="), argv, i, config_sub)
    ELSE Pass([self EXCEPT !.opts = Put(@, s_params, Append(@[s_params], argv[i + 1]))], i)

(* The whole loop from index i, with config.sub answering config_sub. *)
RECURSIVE process(_, _, _, _)
process_from(r, argv, config_sub) == process(r.self, argv, r.arg, config_sub)
process(self, argv, i, config_sub) ==
    IF Raised(self) \/ ~(i < Len(argv)) THEN self
    ELSE process_from(process_arg(self, argv, i, config_sub), argv, config_sub)

(* params() *)
params(self) == self.opts[s_params]

-----------------------------------------------------------------------------
(* command_line.jobs and command_line.post_process *)

(* jobs_value with the clamp of lines 303-304 applied to 'none'. *)
jobs_value_clamped(j, n) ==
    IF j = s_none THEN Num(1, 1)
    ELSE IF j = s_max THEN Num(n, 1)
    ELSE IF j = s_half THEN Num(n \div 2, 1)
    ELSE IF int_ok(j) THEN Num(int_value(j), 1)
    ELSE NumMul(float_value(j), Num(n, 1))

(* Lines 279-302 on the int n of cpus and the token j of opts['jobs']. *)
jobs_value(j, n) ==
    IF j = s_none THEN Num(0, 1)
    ELSE IF j = s_max THEN Num(n, 1)
    ELSE IF j = s_half THEN Num(n \div 2, 1)
    ELSE IF int_ok(j) THEN Num(int_value(j), 1)
    ELSE NumMul(float_value(j), Num(n, 1))

(* jobs(cpus): [self, ret], ret the value returned when nothing is raised. *)
(* Lines 303-304 assign the clamp to 'cpu', a name nothing reads.          *)
jobs_of(self, cpus, j) ==
    IF ~int_ok(cpus)
    THEN [self |-> Raise(self, "ValueError", "invalid literal for int()", cpus), ret |-> NoNum]
    ELSE IF j \notin {s_none, s_max, s_half} /\ ~int_ok(j) /\ ~float_ok(j)
    THEN [self |-> Raise(self, "internal", "bad jobs option: %s", j), ret |-> NoNum]
    ELSE [self |-> self, ret |-> jobs_value(j, int_value(cpus))]
jobs(self, cpus) == jobs_of(self, cpus, self.opts[opt_key(o_jobs)])

s_smp_prefix == <<"-", "j", " ">>

(* smp_mflags with 'ncpus >= 1' for 'ncpus > 1'. *)
smp_mflags_from_one(d, n) ==
    IF NumLe(Num(1, 1), n) THEN <<"-", "j", " ">> \o format_d(n) ELSE Get(d, "nil")

(* Lines 243-246: the flag stored for the parallelism jobs() returned. *)
smp_mflags(d, n) ==
    IF ~NumLe(n, Num(1, 1)) THEN s_smp_prefix \o format_d(n) ELSE Get(d, "nil")

set_smp_mflags(self, r) ==
    IF Raised(r.self)
    THEN [self |-> r.self, ncpus |-> NoNum]
    ELSE [self |-> [self EXCEPT !.defaults = SetStr(@, "_smp_mflags", smp_mflags(@, r.ret))],
          ncpus |-> r.ret]

(* post_process without the check of '_host'. *)
post_process_unchecked(self) ==
    IF ~Has(self.defaults, "_ncpus")
    THEN [self |-> Raise(self, "general", "host number of CPUs not set", s_empty),
          ncpus |-> NoNum]
    ELSE set_smp_mflags(self, jobs(self, Get(self.defaults, "_ncpus")))

(* post_process(): [self, ncpus]. *)
post_process(self) ==
    IF Get(self.defaults, "_host") = Get(self.defaults, "nil")
    THEN [self |-> Raise(self, "general", "host not set", s_empty), ncpus |-> NoNum]
    ELSE IF ~Has(self.defaults, "_ncpus")
    THEN [self |-> Raise(self, "general", "host number of CPUs not set", s_empty),
          ncpus |-> NoNum]
    ELSE set_smp_mflags(self, jobs(self, Get(self.defaults, "_ncpus")))

-----------------------------------------------------------------------------
(* The command lines the model draws. *)

(* '--opt=value' *)
Eq(opt, value) == opt \o <<"=">> \o value

v_path == <<"a", "\\", "b">>
v_a_eq_b == <<"a", "=", "b">>
v_xyz == <<"x", "y", "z">>
v_1_5 == <<"1", ".", "5">>
v_3 == <<"3">>
v_minus_2 == <<"-", "2">>
v_p == <<"p">>
v_q == <<"q">>
o_foo == <<"-", "-", "f", "o", "o">>

Tokens ==
    { v_p, v_q, o_foo, o_help, s_help_alias,
      o_prefix, Eq(o_prefix, v_path), Eq(o_log, v_a_eq_b),
      Eq(o_jobs, v_xyz), Eq(o_jobs, v_1_5), Eq(o_jobs, s_half), Eq(o_jobs, s_none),
      Eq(o_jobs, v_3), Eq(o_jobs, v_minus_2),
      o_force, Eq(o_force, s_1), Eq(o_host, t_a_b_c_d) }

ArgLists == UNION { [1..n -> Tokens] : n \in 0..MaxArgs }

-----------------------------------------------------------------------------
(* run() and load() *)

NotExited == -1

Self == [opts |-> opts, defaults |-> defaults, exc |-> exc, stdout |-> stdout]

(* The exception of self, with the step of load() that raised it. *)
RaisedAt(self, step) == [self.exc EXCEPT !.at = step]

(* overrides = None, and overrides = a mapping. *)
NoOverrides == [is_none |-> TRUE, mapping |-> <<>>]
Overrides(mapping) == [is_none |-> FALSE, mapping |-> mapping]

Init ==
    /\ pc = "run"
    /\ args \in ArgLists
    /\ arg = 0
    /\ opts = <<>>
    /\ defaults = <<>>
    /\ exc = NoExc
    /\ stdout = <<>>
    /\ ncpus = NoNum
    /\ overrides = NoOverrides
    /\ exit_code = NotExited

(* command_line.__init__, on the macros load() read from defaults.mc. *)
seed_opts ==
    [k \in {opt_key(lo) : lo \in DOMAIN _long_opts} \cup {s_params} |->
        IF k = s_params THEN <<>>
        ELSE _long_opts[CHOOSE lo \in DOMAIN _long_opts : opt_key(lo) = k].defs]

seed_defaults(base) ==
    LET init == {lo \in DOMAIN _long_opts : _long_opts[lo].init}
        seeded == {_long_opts[lo].macro : lo \in init}
    IN  [m \in DOMAIN base \cup seeded |->
            IF m \in seeded
            THEN <<"none", "none",
                   _long_opts[CHOOSE lo \in init : _long_opts[lo].macro = m].defs>>
            ELSE base[m]]

Construct ==
    /\ pc = "run"
    /\ \E base \in BaseMacros :
          /\ opts' = seed_opts
          /\ defaults' = seed_defaults(base)
    /\ pc' = "overrides"
    /\ UNCHANGED <<args, arg, exc, stdout, ncpus, overrides, exit_code>>

(* apply_overrides with the key already in defaults kept. *)
apply_overrides_keep(d, mapping) ==
    [k \in DOMAIN d \cup DOMAIN mapping |->
        IF k \in DOMAIN d THEN d[k] ELSE mapping[k]]

(* load(), lines 387-413: the host's overrides, written over the defaults. *)
apply_overrides(d, mapping) ==
    [k \in DOMAIN d \cup DOMAIN mapping |->
        IF k \in DOMAIN mapping THEN mapping[k] ELSE d[k]]

(* Lines 387-407: whether a host module is chosen and its load() answers. *)
has_overrides(host) ==
    /\ \/ host.os_name = "nt"
       \/ /\ host.os_name = "posix"
          /\ host.uname \in {"CYGWIN_NT", "Darwin", "FreeBSD", "Linux"}
    /\ ~host.failed

host_overrides(host) ==
    IF has_overrides(host) THEN Overrides(host.mapping) ELSE NoOverrides

(* Lines 408-413. *)
load_overrides(self, host) ==
    IF host.os_name \notin {"nt", "posix"}
    THEN Raise(self, "general", "unsupported host type; please add", s_empty)
    ELSE IF host_overrides(host).is_none
    THEN Raise(self, "general", "no hosts defaults found; please add", s_empty)
    ELSE [self EXCEPT !.defaults = apply_overrides(@, host_overrides(host).mapping)]

LoadOverridesTo(after) ==
    /\ defaults' = after.defaults
    /\ exc' = RaisedAt(after, IF Raised(after) THEN "overrides" ELSE "")
    /\ pc' = IF Raised(after) THEN "raised" ELSE "process"

LoadOverrides ==
    /\ pc = "overrides"
    /\ \E host \in Hosts :
          /\ overrides' = host_overrides(host)
          /\ LoadOverridesTo(load_overrides(Self, host))
    /\ UNCHANGED <<args, arg, opts, stdout, ncpus, exit_code>>

(* One pass of process()'s loop. *)
ProcessArgTo(r) ==
    /\ opts' = r.self.opts
    /\ defaults' = r.self.defaults
    /\ stdout' = r.self.stdout
    /\ arg' = r.arg
    /\ exc' = RaisedAt(r.self, IF Raised(r.self) THEN "process" ELSE "")
    /\ pc' = IF Raised(r.self) THEN "raised" ELSE "process"

ProcessArg ==
    /\ pc = "process"
    /\ arg < Len(args)
    /\ \E config_sub \in ConfigSubResults :
          ProcessArgTo(process_arg(Self, args, arg, config_sub))
    /\ UNCHANGED <<args, ncpus, overrides, exit_code>>

(* The loop's condition fails: process() returns. *)
ProcessReturn ==
    /\ pc = "process"
    /\ ~(arg < Len(args))
    /\ pc' = "post_process"
    /\ UNCHANGED <<args, arg, opts, defaults, exc, stdout, ncpus, overrides, exit_code>>

PostProcessTo(r) ==
    /\ defaults' = r.self.defaults
    /\ ncpus' = r.ncpus
    /\ exc' = RaisedAt(r.self, IF Raised(r.self) THEN "post_process" ELSE "")
    /\ pc' = IF Raised(r.self) THEN "raised" ELSE "provenance"

PostProcess ==
    /\ pc = "post_process"
    /\ PostProcessTo(post_process(Self))
    /\ UNCHANGED <<args, arg, opts, stdout, overrides, exit_code>>

s_nil_macro == <<"%", "{", "n", "i", "l", "}">>
s_modified == <<"-", "m", "o", "d", "i", "f", "i", "e", "d">>
s_no_repo == <<"n", "o", "-", "r", "e", "p", "o">>
s_True == <<"T", "r", "u", "e">>
s_False == <<"F", "a", "l", "s", "e">>

(* load(), lines 418-435: the provenance keys; load() returns o. *)
stamp(d, repo) ==
    LET repo_valid == IF repo.valid THEN s_1 ELSE s_0
        repo_head  == IF repo.valid THEN repo.head ELSE s_nil_macro
        repo_clean == IF repo.valid THEN (IF repo.clean THEN s_True ELSE s_False)
                      ELSE s_nil_macro
        repo_id    == IF repo.valid
                      THEN (IF repo.clean THEN repo.head ELSE repo.head \o s_modified)
                      ELSE s_no_repo
    IN  SetStr(SetStr(SetStr(SetStr(d, "_sbgit_valid", repo_valid),
                             "_sbgit_head", repo_head),
                      "_sbgit_clean", repo_clean),
               "_sbgit_id", repo_id)

Provenance ==
    /\ pc = "provenance"
    /\ \E repo \in Repos : defaults' = stamp(defaults, repo)
    /\ pc' = "loaded"
    /\ UNCHANGED <<args, arg, opts, exc, stdout, ncpus, overrides, exit_code>>

(* run(), lines 440-443 and 455: load() returned. *)
RunReport ==
    /\ pc = "loaded"
    /\ stdout' = stdout \o <<Line("Options:", s_empty), Line("Defaults:", s_empty)>>
    /\ exit_code' = 0
    /\ pc' = "exit"
    /\ UNCHANGED <<args, arg, opts, defaults, exc, ncpus, overrides>>

(* run(), lines 444-449: error.general and error.internal are printed. *)
RunError ==
    /\ pc = "raised"
    /\ exc.kind \in {"general", "internal"}
    /\ stdout' = Append(stdout, Line(exc.msg, exc.arg))
    /\ exit_code' = 1
    /\ pc' = "exit"
    /\ UNCHANGED <<args, arg, opts, defaults, exc, ncpus, overrides>>

(* run(), lines 450-451 and 455: error.exit is passed over. *)
RunExit ==
    /\ pc = "raised"
    /\ exc.kind = "exit"
    /\ exit_code' = 0
    /\ pc' = "exit"
    /\ UNCHANGED <<args, arg, opts, defaults, exc, stdout, ncpus, overrides>>

(* An exception run() has no clause for leaves it: the interpreter writes  *)
(* the traceback to stderr and ends with status 1.                         *)
Uncaught ==
    /\ pc = "raised"
    /\ exc.kind \notin {"general", "internal", "exit"}
    /\ exit_code' = 1
    /\ pc' = "exit"
    /\ UNCHANGED <<args, arg, opts, defaults, exc, stdout, ncpus, overrides>>

Next ==
    \/ Construct
    \/ LoadOverrides
    \/ ProcessArg
    \/ ProcessReturn
    \/ PostProcess
    \/ Provenance
    \/ RunReport
    \/ RunError
    \/ RunExit
    \/ Uncaught

Spec == Init /\ [][Next]_vars

-----------------------------------------------------------------------------
(* Where a run stands. *)

(* process() returned: every token of args was handled and nothing raised. *)
ProcessReturned ==
    \/ pc \in {"post_process", "provenance", "loaded"}
    \/ pc \in {"raised", "exit"} /\ exc.at = "post_process"
    \/ pc = "exit" /\ exc.kind = "none"

(* post_process() returned. *)
PostProcessed ==
    \/ pc \in {"provenance", "loaded"}
    \/ pc = "exit" /\ exc.kind = "none"

(* The options whose table row takes a value, and values to give them. *)
ValueOptions == {lo \in DOMAIN _long_opts : _long_opts[lo].param}
OptionValues == {v_3, v_path, t_a_b_c}

-----------------------------------------------------------------------------
(* C1: for every option whose row takes a value and every value v the      *)
(* option accepts, process() on the one token '--opt=v' and process() on   *)
(* the two tokens '--opt' 'v' both end without an error and in the same    *)
(* opts and the same defaults.                                             *)
C1_SameStore(one, two) ==
    ~Raised(one) => /\ ~Raised(two)
                    /\ two.opts = one.opts
                    /\ two.defaults = one.defaults

(* Checked where process() is about to start on a two-token command line   *)
(* of this shape, for that line and for every other option and value.      *)
C1_EqualsAndSeparateFormAgree ==
    (pc = "process" /\ arg = 0 /\ Len(args) = 2 /\ args[1] \in ValueOptions) =>
        \A lo \in ValueOptions, v \in OptionValues \cup {args[2]},
           config_sub \in ConfigSubResults :
            C1_SameStore(process(Self, <<Eq(lo, v)>>, 0, config_sub),
                         process(Self, <<lo, v>>, 0, config_sub))

-----------------------------------------------------------------------------
(* C2: whenever the triplet handler has stored a triplet t under key K,    *)
(* K_arch and K_cpu are the text of t before its first dash (all of t when *)
(* t has no dash), K_vendor is the text between the first and the second   *)
(* dash (all of the remainder when there is only one dash) and K_os is the *)
(* text after the second dash; a segment that is missing is empty.         *)
C2_Before(t) == IF find(t, "-") < 0 THEN t ELSE slice(t, 0, find(t, "-"))
C2_After(t) == IF find(t, "-") < 0 THEN s_empty ELSE slice_from(t, find(t, "-") + 1)

C2_Segments(d, K) ==
    /\ Get(d, K \o "_arch") = C2_Before(Get(d, K))
    /\ Get(d, K \o "_cpu") = C2_Before(Get(d, K))
    /\ Get(d, K \o "_vendor") = C2_Before(C2_After(Get(d, K)))
    /\ Get(d, K \o "_os") = C2_After(C2_After(Get(d, K)))

C2_TripletSegments ==
    \A K \in {"_host", "_build", "_target"} :
        (pc # "run" /\ Has(defaults, K \o "_arch")) => C2_Segments(defaults, K)

-----------------------------------------------------------------------------
(* C3: with n the host's CPU count and j the jobs token, the parallelism   *)
(* post_process() resolves is 0 for 'none', n for 'max', n divided by two  *)
(* rounded down for 'half', the integer itself when j parses as an         *)
(* integer, and j times n when j parses only as a fraction (with n = 8:    *)
(* max 8, half 4, none 0, '3' 3, '1.5' 12); a token that is none of these  *)
(* is rejected by the jobs handler with error.general and is never the     *)
(* token the resolution reads.                                             *)
C3_IsJobsToken(j) == j \in {s_none, s_max, s_half} \/ int_ok(j) \/ float_ok(j)

C3_Expected(j, n, r) ==
    /\ j = s_none => r = Num(0, 1)
    /\ j = s_max => r = Num(n, 1)
    /\ j = s_half => r.den = 1 /\ 2 * r.num <= n /\ n < 2 * r.num + 2
    /\ (j \notin {s_none, s_max, s_half} /\ int_ok(j)) => r = Num(int_value(j), 1)
    /\ (j \notin {s_none, s_max, s_half} /\ ~int_ok(j)) =>
           /\ float_ok(j)
           /\ r.num * float_value(j).den = float_value(j).num * n * r.den

C3_Examples(j, n, r) ==
    n = 8 =>
        /\ j = s_max => NumEq(r, Num(8, 1))
        /\ j = s_half => NumEq(r, Num(4, 1))
        /\ j = s_none => NumEq(r, Num(0, 1))
        /\ j = v_3 => NumEq(r, Num(3, 1))
        /\ j = v_1_5 => NumEq(r, Num(12, 1))

(* The text after '--opt=' in a token. *)
ValueText(token, lo) == slice_from(token, Len(lo) + 1)

(* process() stands on a token '--jobs=<value>' whose value is no jobs     *)
(* token: the handler raised, and raised error.general.                    *)
C3_Rejected ==
    (/\ pc \in {"process", "raised", "exit"}
     /\ exc.at \in {"", "process"}
     /\ arg < Len(args)
     /\ startswith(args[arg + 1], Eq(o_jobs, s_empty))
     /\ ~C3_IsJobsToken(ValueText(args[arg + 1], o_jobs))) =>
        \/ pc = "process"
        \/ /\ exc.kind = "general"
           /\ exc.msg = "invalid jobs option: %s"
           /\ exc.arg = ValueText(args[arg + 1], o_jobs)

C3_JobsResolution ==
    /\ pc # "run" => C3_IsJobsToken(opts[opt_key(o_jobs)])
    /\ exc.kind # "internal"
    /\ C3_Rejected
    /\ PostProcessed =>
          /\ C3_Expected(opts[opt_key(o_jobs)], int_value(Get(defaults, "_ncpus")), ncpus)
          /\ C3_Examples(opts[opt_key(o_jobs)], int_value(Get(defaults, "_ncpus")), ncpus)

(* '--jobs=1.5' on 8 CPUs resolved to 12. *)
C3_Witness ==
    /\ pc = "loaded"
    /\ \E i \in 1..Len(args) : args[i] = Eq(o_jobs, v_1_5)
    /\ opts[opt_key(o_jobs)] = v_1_5
    /\ Get(defaults, "_ncpus") = <<"8">>
    /\ NumEq(ncpus, Num(12, 1))

-----------------------------------------------------------------------------
(* C4: after post_process() succeeds, _smp_mflags is '-j <n>', n printed   *)
(* as an integer (the integer part of a fractional n), exactly when the    *)
(* resolved parallelism n is greater than 1, and is the nil value          *)
(* otherwise: 1, 0 and anything below 0 give the empty flag, 4 gives       *)
(* '-j 4'.                                                                 *)
C4_IsFlagOf(flag, n) ==
    /\ startswith(flag, s_smp_prefix)
    /\ int_ok(slice_from(flag, Len(s_smp_prefix)))
    /\ flag[Len(s_smp_prefix) + 1] \in Digits
    /\ int_value(slice_from(flag, Len(s_smp_prefix))) * n.den <= n.num
    /\ n.num < (int_value(slice_from(flag, Len(s_smp_prefix))) + 1) * n.den

C4_Flag(flag, n) ==
    /\ NumLe(n, Num(1, 1)) => flag = s_empty
    /\ ~NumLe(n, Num(1, 1)) => C4_IsFlagOf(flag, n)
    /\ NumEq(n, Num(4, 1)) => flag = <<"-", "j", " ", "4">>

C4_ParallelFlag ==
    PostProcessed =>
        /\ Has(defaults, "_smp_mflags")
        /\ C4_Flag(Get(defaults, "_smp_mflags"), ncpus)

(* 'half' of 8 CPUs: 4 jobs, '-j 4'. *)
C4_Witness ==
    /\ pc = "loaded"
    /\ opts[opt_key(o_jobs)] = s_half
    /\ NumEq(ncpus, Num(4, 1))
    /\ Get(defaults, "_smp_mflags") = <<"-", "j", " ", "4">>

-----------------------------------------------------------------------------
(* C5: defaults is written by the seeds of the table, then by the host's   *)
(* overrides, then by the handlers of the command line, and the later      *)
(* writer wins: a key the command line wrote holds the command line's      *)
(* value whatever the overrides gave, a key only the overrides wrote holds *)
(* the override, and a preseeded key neither wrote holds its table default. *)

(* The option a token names: the text before its first '='. *)
OptionName(token) ==
    IF find(token, "=") < 0 THEN token ELSE slice(token, 0, find(token, "="))

Writers(lo) == {i \in 1..Len(args) : OptionName(args[i]) = lo}
LastWriter(lo) == CHOOSE i \in Writers(lo) : \A j \in Writers(lo) : j <= i

(* What the handler of lo stores for the token: '1' for a flag, the text   *)
(* after '=' otherwise, a path in its shell form.                          *)
C5_Stored(lo, token) ==
    IF _long_opts[lo].handler = "bool" THEN s_1
    ELSE IF _long_opts[lo].handler = "path" THEN shell(ValueText(token, lo))
    ELSE ValueText(token, lo)

C5_Seeded(lo) == defaults[_long_opts[lo].macro] = <<"none", "none", _long_opts[lo].defs>>

C5_LastWriterWins(lo) ==
    IF Writers(lo) # {}
    THEN IF _long_opts[lo].handler = "triplets"
         THEN /\ defaults[_long_opts[lo].macro][1] = "triplet"
              /\ defaults[_long_opts[lo].macro][2] = "none"
         ELSE defaults[_long_opts[lo].macro] =
                  <<"none", "none", C5_Stored(lo, args[LastWriter(lo)])>>
    ELSE IF _long_opts[lo].macro \in DOMAIN overrides.mapping
    THEN defaults[_long_opts[lo].macro] = overrides.mapping[_long_opts[lo].macro]
    ELSE _long_opts[lo].init => C5_Seeded(lo)

C5_Precedence ==
    /\ pc = "overrides" => \A lo \in DOMAIN _long_opts : _long_opts[lo].init => C5_Seeded(lo)
    /\ (pc = "process" /\ arg = 0) =>
           \A k \in DOMAIN overrides.mapping : defaults[k] = overrides.mapping[k]
    /\ ProcessReturned => \A lo \in DOMAIN _long_opts \ {o_help} : C5_LastWriterWins(lo)

(* '_prefix' written by the overrides and by '--prefix=a\b', '_force'      *)
(* written by the overrides alone, '_quiet' by neither.                    *)
C5_Witness ==
    /\ pc = "loaded"
    /\ args = <<Eq(o_prefix, v_path)>>
    /\ "_prefix" \in DOMAIN overrides.mapping
    /\ "_force" \in DOMAIN overrides.mapping
    /\ Get(defaults, "_prefix") = <<"a", "/", "b">>
    /\ Get(defaults, "_force") = s_1
    /\ Get(defaults, "_quiet") = s_0

-----------------------------------------------------------------------------
(* C6: whenever '--help' is one of the tokens of argv, whatever the others *)
(* are, run() prints the usage text and exits with 0 and no error is       *)
(* raised.  Checked for the runs that found the host's overrides, and for  *)
(* a '--help' that does not stand where the value of the option before it  *)
(* stands.                                                                 *)
C6_HelpToken(i) ==
    /\ args[i] = o_help
    /\ i > 1 => args[i - 1] \notin ValueOptions

C6_HelpAlwaysExitsZero ==
    (/\ pc = "exit"
     /\ exc.at # "overrides"
     /\ \E i \in 1..Len(args) : C6_HelpToken(i)) =>
        /\ exit_code = 0
        /\ exc.kind = "exit"
        /\ \E n \in 1..Len(stdout) : stdout[n] = Line("usage", s_empty)

-----------------------------------------------------------------------------
(* C7: when process() has returned and no host triplet is resolved         *)
(* ('_host' unset or equal to nil), load() fails with error.general        *)
(* 'host not set'; when the host is resolved and '_ncpus' is unset it      *)
(* fails with 'host number of CPUs not set'; either way the failure is     *)
(* post_process's, before _smp_mflags and the _sbgit_ keys are stored, and *)
(* load() returns nothing: run() exits with 1.                             *)
C7_HostUnset == Get(defaults, "_host") = Get(defaults, "nil")

C7_FailedInPostProcess(msg) ==
    /\ pc \in {"raised", "exit"}
    /\ exc = [kind |-> "general", msg |-> msg, arg |-> s_empty, at |-> "post_process"]
    /\ ncpus = NoNum
    /\ \A k \in {"_smp_mflags", "_sbgit_valid", "_sbgit_head", "_sbgit_clean", "_sbgit_id"} :
           ~Has(defaults, k)
    /\ pc = "exit" => exit_code = 1

-----------------------------------------------------------------------------
(* C8: every failure of a step of load() is a configuration error          *)
(* (error.general or error.internal) that run() prints before it exits     *)
(* with 1, a value-taking option that is the last token with no value      *)
(* among them; exit code 0 is the end of a load() that returned or of a    *)
(* help request only.                                                      *)
C8_LastTokenNeedsValue ==
    /\ Len(args) > 0
    /\ args[Len(args)] \in ValueOptions
    /\ arg = Len(args) - 1
    /\ exc.at = "process"

C8_FailuresAreConfigurationErrors ==
    pc = "exit" =>
        /\ exc.kind \in {"none", "exit", "general", "internal"}
        /\ exc.kind \in {"general", "internal"} =>
               /\ exit_code = 1
               /\ Len(stdout) > 0
               /\ stdout[Len(stdout)] = Line(exc.msg, exc.arg)
        /\ exit_code = 0 <=> exc.kind \in {"none", "exit"}
        /\ exc.kind = "none" => Has(defaults, "_smp_mflags") /\ Has(defaults, "_sbgit_id")
        /\ C8_LastTokenNeedsValue => exc.kind = "general"

-----------------------------------------------------------------------------
(* C9: when process() has returned, opts['params'] is the tokens that do   *)
(* not start with '--' and were not taken as the value of the option       *)
(* before them, in their order; and a token that starts with '--' and      *)
(* names no option of the table is passed over: the pass raises nothing    *)
(* and changes neither opts (so not the parameters) nor defaults.          *)
RECURSIVE C9_Positional(_)
C9_Positional(argv) ==
    IF Len(argv) = 0 THEN <<>>
    ELSE IF startswith(argv[1], s_long_prefix)
    THEN IF argv[1] \in ValueOptions /\ Len(argv) >= 2
         THEN C9_Positional(Tail(Tail(argv)))
         ELSE C9_Positional(Tail(argv))
    ELSE <<argv[1]>> \o C9_Positional(Tail(argv))

C9_Params == ProcessReturned => opts[s_params] = C9_Positional(args)

C9_Unknown(token) ==
    startswith(token, s_long_prefix) /\ OptionName(token) \notin DOMAIN _long_opts

C9_UnknownPassedOver ==
    (pc = "process" /\ arg < Len(args) /\ C9_Unknown(args[arg + 1])) =>
        /\ pc' = "process"
        /\ arg' = arg + 1
        /\ opts' = opts
        /\ defaults' = defaults
        /\ exc' = exc
        /\ stdout' = stdout

C9_PositionalParameters == [](C9_Params) /\ [][C9_UnknownPassedOver]_vars

(* '--foo' 'p': the unknown option is gone, 'p' is the one parameter. *)
C9_Witness ==
    /\ pc = "post_process"
    /\ args = <<o_foo, v_p>>
    /\ opts[s_params] = <<v_p>>

-----------------------------------------------------------------------------
(* C10: each of the string, path, boolean, jobs and triplet handlers       *)
(* either stores one value, under the option's name in opts and under its  *)
(* macro in defaults ('1' for a flag), or raises and leaves opts and       *)
(* defaults as they were; string, path and jobs raise error.general for an *)
(* absent value, a flag for a supplied one, jobs for a malformed token.    *)
HandlerValues == {None, v_3, v_path, v_xyz, t_a_b_c, s_half}

C10_MustFail(handler, value) ==
    \/ handler \in {"string", "path", "jobs"} /\ value = None
    \/ handler = "bool" /\ value # None
    \/ handler = "jobs" /\ value # None /\ ~C3_IsJobsToken(value)

C10_Outcome(self, lo, value, after) ==
    IF Raised(after)
    THEN /\ after.opts = self.opts
         /\ after.defaults = self.defaults
         /\ after.stdout = self.stdout
         /\ _long_opts[lo].handler # "triplets" =>
                after.exc.kind = "general" /\ C10_MustFail(_long_opts[lo].handler, value)
    ELSE /\ ~C10_MustFail(_long_opts[lo].handler, value)
         /\ after.opts[opt_key(lo)] = Get(after.defaults, _long_opts[lo].macro)
         /\ _long_opts[lo].handler = "bool" => after.opts[opt_key(lo)] = s_1
         /\ \A k \in DOMAIN self.opts \ {opt_key(lo)} : after.opts[k] = self.opts[k]

(* Every handler, called with every value, on the object process() left. *)
C10_Direct ==
    (pc = "process" /\ ~(arg < Len(args))) =>
        \A lo \in DOMAIN _long_opts \ {o_help}, value \in HandlerValues,
           config_sub \in ConfigSubResults :
            C10_Outcome(Self, lo, value, handle(Self, lo, _long_opts[lo], value, config_sub))

(* Every pass of process() on a token that names an option. *)
C10_Pass ==
    (/\ pc = "process" /\ arg < Len(args)
     /\ OptionName(args[arg + 1]) \in DOMAIN _long_opts \ {o_help}) =>
        IF pc' = "raised"
        THEN opts' = opts /\ defaults' = defaults
        ELSE opts'[opt_key(OptionName(args[arg + 1]))] =
                 Get(defaults', _long_opts[OptionName(args[arg + 1])].macro)

C10_HandlersAllOrNothing == [](C10_Direct) /\ [][C10_Pass]_vars

(* '--jobs=xyz' was rejected: opts and defaults still hold the seed. *)
C10_Witness ==
    /\ pc = "raised"
    /\ arg < Len(args)
    /\ args[arg + 1] = Eq(o_jobs, v_xyz)
    /\ exc.msg = "invalid jobs option: %s"
    /\ opts[opt_key(o_jobs)] = s_max
    /\ Get(defaults, "_jobs") = s_max

====
